---- MODULE Spec2Model ----
(***************************************************************************)
(* Model of auth_connector.service_discovery.ServiceDiscoveryClient:       *)
(* registration with retries, the heartbeat thread, deregistration and the *)
(* shutdown hooks (atexit, SIGTERM, SIGINT).                               *)
(*                                                                         *)
(* Threads of control ("contexts"):                                        *)
(*   main              the main thread running application code            *)
(*   worker            a second application thread using the same client   *)
(*   <<"sig", i>>      the i-th run of _signal_handler; Python runs signal *)
(*                     handlers in the main thread, on top of whatever it  *)
(*                     was executing (stack)                               *)
(*   atexit            the atexit callback (self.deregister)               *)
(*   <<"hb", i>>       a threading.Thread whose target is _heartbeat_loop  *)
(* Every statement that reads or writes shared state, performs a transport *)
(* call or blocks is one step.                                             *)
(***************************************************************************)
EXTENDS Integers, Sequences, FiniteSets, TLC

\* ---------------------------------------------------------------- bounds
\* max_retries values an application passes to register() are 0..MaxRetries
MaxRetries == 2
\* number of termination/interrupt signals delivered to the process
MaxSignals == 2

\* register()'s default budget in place of the one send_heartbeat() passes
ReRegisterDefault == 10

\* ------------------------------------------------------ program constants
\* send_heartbeat: self.register(max_retries=3, retry_delay=2)
ReRegisterRetries == 3

\* ---------------------------------------------------------------- contexts
\* contexts are <<kind, index>> pairs
main == <<"app", 1>>
worker == <<"app", 2>>
atexit == <<"exit", 1>>
AppCtx == {main, worker}
SigCtx == {<<"sig", i>> : i \in 1..MaxSignals}
HbCtx == {<<"hb", 1>>, <<"hb", 2>>}
ExitCtx == {atexit}
\* contexts that execute in the main thread, one on top of the other
MainThreadCtx == {main} \cup SigCtx \cup ExitCtx
ShutdownCtx == SigCtx \cup ExitCtx
Ctx == AppCtx \cup SigCtx \cup ExitCtx \cup HbCtx

None == <<"none", 0>>

\* requests outcomes of the three registry calls
RegisterOutcomes == {"200", "status", "conn", "exc"}
HeartbeatOutcomes == {"200", "404", "status", "conn", "exc"}
DeregisterOutcomes == {"200", "status", "exc"}

VARIABLES
    registered,        \* self._registered
    heartbeat_thread,  \* self._heartbeat_thread: None or a thread
    stop_event,        \* self._stop_heartbeat (threading.Event): is_set()
    frame,             \* per context: program counter and locals
    stack,             \* contexts of the main thread, innermost last
    phase,             \* "running", "exiting" (atexit callbacks run), "exited"
    signals,           \* number of signals delivered so far
    \* history variables (observers; never read by the program's steps)
    shutReg,           \* registered when the first shutdown trigger fired
    shutDel,           \* DELETE calls issued since the first shutdown trigger (saturates at 2)
    shutReReg,         \* a register call returned 200 after a shutdown DELETE
    deregOk            \* a deregister() run since the first shutdown trigger got 200

\* the other components of the package, each with a specification of its own
VARIABLES
    cache,             \* AuthClient._cache: per user, the permissions or NoEntry
    cache_ttl,         \* AuthClient._cache_ttl: per user, the expiry or NoEntry
    now,               \* datetime.now()
    fetch,             \* the last get_user_permissions() call and what it did
    response,          \* per user, the last answer of the auth service (observer)
    gate,              \* a request at a guarded handler and the response
    \* history variable of the heartbeat specification
    cancelled,         \* threads alive when stop_heartbeat() set the event
    service_key,       \* ServiceDiscoveryClient.service_key, NoEntry before __init__
    extraction,        \* an AuthMiddleware, the headers of a request and what
                       \* extract_user_context made of them
    registry           \* a PermissionRegistry: _permissions and _categories

\* the variables of ServiceDiscoveryClient and of its observers
client == <<registered, heartbeat_thread, stop_event, frame, stack, phase, signals,
            shutReg, shutDel, shutReReg, deregOk>>

\* the variables the steps of ServiceDiscoveryClient never touch
elsewhere == <<cache, cache_ttl, now, fetch, response, gate, cancelled,
               service_key, extraction, registry>>

\* the components without a specification of their own above
others == <<service_key, extraction, registry>>

vars == <<client, elsewhere>>

hist == <<shutReg, shutDel, shutReReg, deregOk>>

\* ------------------------------------------------------------------ frames
\* op: the public method the context entered; pc: the statement it is at;
\* max_retries, attempt: register()'s argument and loop variable;
\* calls, delays: transport calls issued and time.sleep calls made by the
\* method in progress; out: outcome of the last transport call of a method
\* the application called (what its caller can tell from the log); ret: its
\* return value; thr: the Thread object a start/stop call holds;
\* late: deregister() was entered after a deregister() of this shutdown got 200.
Frame(pc, op) ==
    [pc |-> pc, op |-> op, max_retries |-> 0, attempt |-> 0, calls |-> 0,
     delays |-> 0, out |-> "none", ret |-> "none", thr |-> None, late |-> FALSE]

Min(a, b) == IF a < b THEN a ELSE b

Top == stack[Len(stack)]

\* A context can take a step: the process is alive, and a context of the
\* main thread runs only while it is the innermost one.
Runnable(c) ==
    /\ phase # "exited"
    /\ c \in MainThreadCtx => (stack # <<>> /\ Top = c)

\* Thread.is_alive(): started and its target has not returned
is_alive(t) == t # None /\ frame[t].pc \notin {"unborn", "created"}

AliveThreads == {t \in HbCtx : is_alive(t)}

\* the first shutdown trigger (signal or normal exit) has fired
ShutdownBegun == phase # "running" \/ Len(stack) > 1

Init ==
    /\ registered = FALSE
    /\ heartbeat_thread = None
    /\ stop_event = FALSE
    /\ frame = [c \in Ctx |->
                  IF c \in AppCtx THEN Frame("idle", "none")
                  ELSE IF c \in HbCtx THEN Frame("unborn", "loop")
                  ELSE Frame("off", "none")]
    /\ stack = <<main>>
    /\ phase = "running"
    /\ signals = 0
    /\ shutReg = FALSE
    /\ shutDel = 0
    /\ shutReReg = FALSE
    /\ deregOk = FALSE

\* The other components at rest.
NoEntry == "none"

Users == {"u1", "u2"}

\* no get_user_permissions() call made yet
NoFetch ==
    [n |-> 0, user |-> NoEntry, force |-> FALSE, called |-> FALSE,
     outcome |-> NoEntry, result |-> {}, raised |-> FALSE]

\* no answer received yet
NoResponse == [at |-> -1, outcome |-> NoEntry, value |-> {}]

\* AuthClient.__init__: both dictionaries empty
AuthClientInit ==
    /\ cache = [u \in {} |-> {}]
    /\ cache_ttl = [u \in {} |-> 0]
    /\ now = 0
    /\ fetch = NoFetch
    /\ response = [u \in Users |-> NoResponse]

\* no request at a guarded handler
NoRequest == gate = NoEntry

\* the service key the client was constructed with
ServiceKey == "my-service"

\* no AuthMiddleware has seen a request
NoExtraction == NoEntry

\* PermissionRegistry.__init__: both dictionaries empty
PermissionRegistryInit ==
    [permissions |-> [name \in {} |-> NoEntry],
     categories |-> [category \in {} |-> <<>>],
     raised |-> NoEntry]

Constructed == service_key = ServiceKey

Elsewhere ==
    /\ AuthClientInit
    /\ NoRequest
    /\ cancelled = {}
    /\ Constructed
    /\ extraction = NoExtraction
    /\ registry = PermissionRegistryInit

\* the process after ServiceDiscoveryClient(...) was constructed
Start == Init /\ Elsewhere

\* context c takes the step that leaves pc value p
Leaves(c, p) == frame[c].pc = p /\ frame'[c].pc \notin {p, "off"}

\* Replace context c's frame.
SetFrame(c, f) == frame' = [frame EXCEPT ![c] = f]

\* --------------------------------------------------------------- register
\* (mutation of should_sleep: the delay is taken after the final attempt too)
should_sleep_always(attempt, max_retries) == attempt <= max_retries

\* "if attempt < max_retries": sleep only when another attempt follows
should_sleep(attempt, max_retries) == attempt < max_retries

\* "if response.status_code == 200"
register_ok(outcome) == outcome = "200"

\* The application calls register(max_retries, retry_delay); range(1, max_retries + 1)
\* is empty for max_retries = 0 and the method falls through to "return False".
call_register(c) ==
    /\ c \in AppCtx
    /\ Runnable(c)
    /\ frame[c].pc = "idle"
    /\ \E m \in 0..MaxRetries :
         SetFrame(c, IF m >= 1
                     THEN [Frame("reg_post", "register") EXCEPT
                             !.max_retries = m, !.attempt = 1]
                     ELSE [Frame("done", "register") EXCEPT !.ret = "false"])
    /\ UNCHANGED <<registered, heartbeat_thread, stop_event, stack, phase, signals, hist>>

\* where control goes when register() returns: to the application, or back
\* into send_heartbeat(), which returns to _heartbeat_loop's wait
\* register() ends the thread it was called in
AfterRegisterEnds(c, f) ==
    IF c \in HbCtx THEN Frame("unborn", "loop") ELSE f

AfterRegister(c, f) ==
    IF c \in HbCtx THEN Frame("hb_wait", "loop") ELSE f

\* One pass of the retry loop: requests.post(.../register) and the handling
\* of its outcome (200, another status, ConnectionError, any other exception).
register_attempt(c) ==
    /\ Runnable(c)
    /\ frame[c].pc = "reg_post"
    /\ \E o \in RegisterOutcomes :
         LET f == [frame[c] EXCEPT !.calls = @ + 1,
                                   !.out = IF c \in AppCtx THEN o ELSE @] IN
         IF register_ok(o)
         THEN /\ registered' = TRUE
              /\ SetFrame(c, AfterRegister(c, [f EXCEPT !.pc = "done", !.ret = "true"]))
              /\ shutReReg' = (shutReReg \/ shutDel > 0)
         ELSE /\ IF should_sleep(f.attempt, f.max_retries)
                 THEN SetFrame(c, [f EXCEPT !.pc = "reg_sleep", !.delays = @ + 1])
                 ELSE SetFrame(c, AfterRegister(c, [f EXCEPT !.pc = "done", !.ret = "false"]))
              /\ UNCHANGED <<registered, shutReReg>>
    /\ UNCHANGED <<heartbeat_thread, stop_event, stack, phase, signals,
                   shutReg, shutDel, deregOk>>

\* time.sleep(retry_delay) returns and the for loop takes the next attempt
register_sleep(c) ==
    /\ Runnable(c)
    /\ frame[c].pc = "reg_sleep"
    /\ SetFrame(c, [frame[c] EXCEPT !.pc = "reg_post", !.out = "none", !.attempt = @ + 1])
    /\ UNCHANGED <<registered, heartbeat_thread, stop_event, stack, phase, signals, hist>>

\* ---------------------------------------------------------- stop_heartbeat
\* (mutation of stop_thread_alive: the is_alive() test is left out)
stop_thread_set == heartbeat_thread # None

\* "if self._heartbeat_thread and self._heartbeat_thread.is_alive()"
stop_thread_alive == is_alive(heartbeat_thread)

\* where control goes when stop_heartbeat() returns: back into deregister(),
\* or to the application
AfterStop(f) ==
    IF f.op = "deregister"
    THEN [f EXCEPT !.pc = "dereg_delete", !.thr = None]
    ELSE [f EXCEPT !.pc = "done", !.thr = None]

call_stop_heartbeat(c) ==
    /\ c \in AppCtx
    /\ Runnable(c)
    /\ frame[c].pc = "idle"
    /\ SetFrame(c, Frame("stop_check", "stop"))
    /\ UNCHANGED <<registered, heartbeat_thread, stop_event, stack, phase, signals, hist>>

stop_heartbeat_check(c) ==
    /\ Runnable(c)
    /\ frame[c].pc = "stop_check"
    /\ IF stop_thread_alive
       THEN SetFrame(c, [frame[c] EXCEPT !.pc = "stop_set"])
       ELSE SetFrame(c, [AfterStop(frame[c]) EXCEPT
                           !.ret = IF frame[c].op = "stop" THEN "noop" ELSE @])
    /\ UNCHANGED <<registered, heartbeat_thread, stop_event, stack, phase, signals, hist>>

\* self._stop_heartbeat.set()
stop_heartbeat_set(c) ==
    /\ Runnable(c)
    /\ frame[c].pc = "stop_set"
    /\ stop_event' = TRUE
    /\ SetFrame(c, [frame[c] EXCEPT !.pc = "stop_join_call"])
    /\ UNCHANGED <<registered, heartbeat_thread, stack, phase, signals, hist>>

\* self._heartbeat_thread.join(timeout=5) is called: the attribute is read
\* again; joining a Thread that was created but not started raises
\* RuntimeError, which deregister() catches ("except Exception": return False)
\* and a direct stop_heartbeat() call lets through.
stop_heartbeat_join_call(c) ==
    /\ Runnable(c)
    /\ frame[c].pc = "stop_join_call"
    /\ IF frame[heartbeat_thread].pc = "created"
       THEN SetFrame(c, [frame[c] EXCEPT
                           !.pc = "done",
                           !.ret = IF frame[c].op = "deregister" THEN "false" ELSE "raised"])
       ELSE SetFrame(c, [frame[c] EXCEPT !.pc = "stop_join", !.thr = heartbeat_thread])
    /\ UNCHANGED <<registered, heartbeat_thread, stop_event, stack, phase, signals, hist>>

\* The thread is inside send_heartbeat(): blocked in requests.post (timeout 5
\* for connect and for read) or in the re-registration (up to 3 posts of
\* timeout 10 and 2 sleeps of 2 s), which can outlast join's 5 s.
InTick(t) == frame[t].pc \in {"hb_resp", "reg_post", "reg_sleep"}

\* join(timeout=5) returns: the thread has ended, or the 5 s ran out
stop_heartbeat_join(c) ==
    /\ Runnable(c)
    /\ frame[c].pc = "stop_join"
    /\ \/ ~is_alive(frame[c].thr)
       \/ InTick(frame[c].thr)
    /\ SetFrame(c, AfterStop(frame[c]))
    /\ UNCHANGED <<registered, heartbeat_thread, stop_event, stack, phase, signals, hist>>

\* -------------------------------------------------------------- deregister
\* (mutation of not_registered: the early return is left out)
never_short_circuit == FALSE

\* "if not self._registered: return True"
not_registered == ~registered

\* (mutation of deregister_ok: whatever the DELETE did counts as success)
deregister_ok_always(outcome) == TRUE

\* "if response.status_code == 200"
deregister_ok(outcome) == outcome = "200"

call_deregister(c) ==
    /\ c \in AppCtx
    /\ Runnable(c)
    /\ frame[c].pc = "idle"
    /\ SetFrame(c, Frame("dereg_check", "deregister"))
    /\ UNCHANGED <<registered, heartbeat_thread, stop_event, stack, phase, signals, hist>>

deregister_check(c) ==
    /\ Runnable(c)
    /\ frame[c].pc = "dereg_check"
    /\ IF not_registered
       THEN SetFrame(c, [frame[c] EXCEPT !.pc = "done", !.ret = "true", !.late = deregOk])
       ELSE SetFrame(c, [frame[c] EXCEPT !.pc = "stop_check", !.late = deregOk])
    /\ UNCHANGED <<registered, heartbeat_thread, stop_event, stack, phase, signals, hist>>

\* requests.delete(.../unregister/{service_key}) is sent
deregister_delete(c) ==
    /\ Runnable(c)
    /\ frame[c].pc = "dereg_delete"
    /\ SetFrame(c, [frame[c] EXCEPT !.pc = "dereg_resp", !.calls = @ + 1])
    /\ shutDel' = IF ShutdownBegun THEN Min(shutDel + 1, 2) ELSE shutDel
    /\ UNCHANGED <<registered, heartbeat_thread, stop_event, stack, phase, signals,
                   shutReg, shutReReg, deregOk>>

\* the DELETE's outcome: 200, another status, or an exception
deregister_response(c) ==
    /\ Runnable(c)
    /\ frame[c].pc = "dereg_resp"
    /\ \E o \in DeregisterOutcomes :
         IF deregister_ok(o)
         THEN /\ registered' = FALSE
              /\ deregOk' = (deregOk \/ ShutdownBegun)
              /\ SetFrame(c, [frame[c] EXCEPT !.pc = "done", !.out = o, !.ret = "true"])
         ELSE /\ SetFrame(c, [frame[c] EXCEPT !.pc = "done", !.out = o, !.ret = "false"])
              /\ UNCHANGED <<registered, deregOk>>
    /\ UNCHANGED <<heartbeat_thread, stop_event, stack, phase, signals,
                   shutReg, shutDel, shutReReg>>

\* --------------------------------------------------------- start_heartbeat
\* (mutation of start_already_running: the running thread is not detected)
start_never_running == FALSE

\* "if self._heartbeat_thread and self._heartbeat_thread.is_alive()"
start_already_running == is_alive(heartbeat_thread)

\* Thread objects the model can hand out: ended or never created, or created
\* and no longer referenced (self._heartbeat_thread was overwritten before
\* start() reached it), and not the object a join in progress holds. The
\* lowest one is taken.
FreeThreads ==
    {t \in HbCtx : /\ \/ frame[t].pc = "unborn"
                      \/ frame[t].pc = "created" /\ heartbeat_thread # t
                   /\ \A c \in Ctx : frame[c].thr # t}

call_start_heartbeat(c) ==
    /\ c \in AppCtx
    /\ Runnable(c)
    /\ frame[c].pc = "idle"
    /\ SetFrame(c, Frame("start_check", "start"))
    /\ UNCHANGED <<registered, heartbeat_thread, stop_event, stack, phase, signals, hist>>

start_heartbeat_check(c) ==
    /\ Runnable(c)
    /\ frame[c].pc = "start_check"
    /\ IF start_already_running
       THEN SetFrame(c, [frame[c] EXCEPT !.pc = "done", !.ret = "already"])
       ELSE SetFrame(c, [frame[c] EXCEPT !.pc = "start_clear"])
    /\ UNCHANGED <<registered, heartbeat_thread, stop_event, stack, phase, signals, hist>>

\* self._stop_heartbeat.clear()
start_heartbeat_clear(c) ==
    /\ Runnable(c)
    /\ frame[c].pc = "start_clear"
    /\ stop_event' = FALSE
    /\ SetFrame(c, [frame[c] EXCEPT !.pc = "start_create"])
    /\ UNCHANGED <<registered, heartbeat_thread, stack, phase, signals, hist>>

\* self._heartbeat_thread = threading.Thread(target=self._heartbeat_loop, ...)
start_heartbeat_create(c) ==
    /\ Runnable(c)
    /\ frame[c].pc = "start_create"
    /\ \E t \in FreeThreads :
         /\ \A u \in FreeThreads : t[2] <= u[2]
         /\ heartbeat_thread' = t
         /\ frame' = [frame EXCEPT ![c] = [@ EXCEPT !.pc = "start_start"],
                                   ![t] = Frame("created", "loop")]
    /\ UNCHANGED <<registered, stop_event, stack, phase, signals, hist>>

\* self._heartbeat_thread.start(): the attribute is read again, so this starts
\* whichever Thread it holds now; Thread.start() on a thread that was already
\* started raises RuntimeError.
start_heartbeat_start(c) ==
    /\ Runnable(c)
    /\ frame[c].pc = "start_start"
    /\ IF frame[heartbeat_thread].pc = "created"
       THEN frame' = [frame EXCEPT
                        ![c] = [@ EXCEPT !.pc = "done", !.ret = "started"],
                        ![heartbeat_thread] = Frame("loop", "loop")]
       ELSE SetFrame(c, [frame[c] EXCEPT !.pc = "done", !.ret = "raised"])
    /\ UNCHANGED <<registered, heartbeat_thread, stop_event, stack, phase, signals, hist>>

\* the application's call returns
app_return(c) ==
    /\ c \in AppCtx
    /\ Runnable(c)
    /\ frame[c].pc = "done"
    /\ SetFrame(c, Frame("idle", "none"))
    /\ UNCHANGED <<registered, heartbeat_thread, stop_event, stack, phase, signals, hist>>

\* ---------------------------------------------------------- heartbeat thread
\* "while not self._stop_heartbeat.is_set()": the thread ends when the event
\* is set; otherwise send_heartbeat() sends requests.post(.../heartbeat).
\* (The test and the sending are one step: nothing the thread reads lies
\* between them.)
heartbeat_loop(t) ==
    /\ t \in HbCtx
    /\ Runnable(t)
    /\ frame[t].pc = "loop"
    /\ IF stop_event
       THEN SetFrame(t, Frame("unborn", "loop"))
       ELSE SetFrame(t, [frame[t] EXCEPT !.pc = "hb_resp", !.calls = @ + 1])
    /\ UNCHANGED <<registered, heartbeat_thread, stop_event, stack, phase, signals, hist>>

\* "elif response.status_code == 404": the registry no longer knows the
\* instance
instance_not_found_or_error(outcome) == outcome # "200"

instance_not_found(outcome) == outcome = "404"

\* send_heartbeat() handles the outcome: 200 returns True; 404 clears
\* _registered and calls register(max_retries=3, retry_delay=2); any other
\* status or exception returns False.
send_heartbeat_response(t) ==
    /\ t \in HbCtx
    /\ Runnable(t)
    /\ frame[t].pc = "hb_resp"
    /\ \E o \in HeartbeatOutcomes :
         IF instance_not_found(o)
         THEN /\ registered' = FALSE
              /\ SetFrame(t, [Frame("reg_post", "loop") EXCEPT
                                !.max_retries = ReRegisterRetries, !.attempt = 1,
                                !.out = o])
         ELSE /\ SetFrame(t, Frame("hb_wait", "loop"))
              /\ UNCHANGED registered
    /\ UNCHANGED <<heartbeat_thread, stop_event, stack, phase, signals, hist>>

\* (mutation of heartbeat_wait: wait() without its timeout returns only once
\* the event is set)
heartbeat_wait_forever(t) ==
    /\ t \in HbCtx
    /\ Runnable(t)
    /\ frame[t].pc = "hb_wait"
    /\ stop_event
    /\ SetFrame(t, Frame("loop", "loop"))
    /\ UNCHANGED <<registered, heartbeat_thread, stop_event, stack, phase, signals, hist>>

\* self._stop_heartbeat.wait(self.heartbeat_interval) returns: the event was
\* set, or the interval elapsed
heartbeat_wait(t) ==
    /\ t \in HbCtx
    /\ Runnable(t)
    /\ frame[t].pc = "hb_wait"
    /\ SetFrame(t, Frame("loop", "loop"))
    /\ UNCHANGED <<registered, heartbeat_thread, stop_event, stack, phase, signals, hist>>

\* ------------------------------------------------------------------ shutdown
\* SIGTERM or SIGINT arrives: _signal_handler runs in the main thread on top
\* of what it was executing, and calls self.deregister().
signal_handler(signum) ==
    /\ phase # "exited"
    /\ stack # <<>>
    /\ signals < MaxSignals
    /\ LET h == <<"sig", signals + 1>> IN
         /\ stack' = Append(stack, h)
         /\ SetFrame(h, Frame("dereg_check", "deregister"))
    /\ signals' = signals + 1
    /\ shutReg' = IF ShutdownBegun THEN shutReg ELSE registered
    /\ UNCHANGED <<registered, heartbeat_thread, stop_event, phase,
                   shutDel, shutReReg, deregOk>>

\* Frames of the main thread that SystemExit unwinds
Unwound(f) ==
    [c \in Ctx |-> IF c \in MainThreadCtx /\ f[c].pc # "off"
                   THEN Frame("off", "none") ELSE f[c]]

\* (mutation of signal_exit: the handler returns to the code it interrupted)
signal_return(h) ==
    /\ h \in SigCtx
    /\ Runnable(h)
    /\ frame[h].pc = "done"
    /\ stack' = SubSeq(stack, 1, Len(stack) - 1)
    /\ SetFrame(h, Frame("off", "none"))
    /\ UNCHANGED <<registered, heartbeat_thread, stop_event, phase, signals, hist>>

\* sys.exit(0) in _signal_handler: SystemExit (not an Exception, so neither
\* register() nor deregister() catches it) unwinds the main thread; the
\* interpreter then runs the atexit callbacks. Raised inside the atexit
\* callback, it ends that callback.
signal_exit(h) ==
    /\ h \in SigCtx
    /\ Runnable(h)
    /\ frame[h].pc = "done"
    /\ IF phase = "running"
       THEN /\ phase' = "exiting"
            /\ stack' = <<atexit>>
            /\ frame' = [Unwound(frame) EXCEPT ![atexit] = Frame("dereg_check", "deregister")]
       ELSE /\ phase' = "exited"
            /\ stack' = <<>>
            /\ frame' = Unwound(frame)
    /\ UNCHANGED <<registered, heartbeat_thread, stop_event, signals, hist>>

\* The main thread ends normally: the atexit callback self.deregister runs.
normal_exit ==
    /\ phase = "running"
    /\ stack = <<main>>
    /\ frame[main].pc = "idle"
    /\ phase' = "exiting"
    /\ stack' = <<atexit>>
    /\ frame' = [Unwound(frame) EXCEPT ![atexit] = Frame("dereg_check", "deregister")]
    /\ shutReg' = registered
    /\ UNCHANGED <<registered, heartbeat_thread, stop_event, signals,
                   shutDel, shutReReg, deregOk>>

\* The atexit callback returns and the process ends (daemon threads with it).
atexit_return ==
    /\ Runnable(atexit)
    /\ frame[atexit].pc = "done"
    /\ phase' = "exited"
    /\ stack' = <<>>
    /\ frame' = Unwound(frame)
    /\ UNCHANGED <<registered, heartbeat_thread, stop_event, signals, hist>>

\* ------------------------------------------------------------ specification
\* Spec: the running process. The main thread and a second application
\* thread call the client's public methods in any order and interleaving,
\* with the heartbeat threads they start.
Next ==
    \/ \E c \in AppCtx : call_register(c) /\ UNCHANGED elsewhere
    \/ \E c \in Ctx : register_attempt(c) /\ UNCHANGED elsewhere
    \/ \E c \in Ctx : register_sleep(c) /\ UNCHANGED elsewhere
    \/ \E c \in AppCtx : call_deregister(c) /\ UNCHANGED elsewhere
    \/ \E c \in Ctx : deregister_check(c) /\ UNCHANGED elsewhere
    \/ \E c \in Ctx : deregister_delete(c) /\ UNCHANGED elsewhere
    \/ \E c \in Ctx : deregister_response(c) /\ UNCHANGED elsewhere
    \/ \E c \in AppCtx : call_stop_heartbeat(c) /\ UNCHANGED elsewhere
    \/ \E c \in Ctx : stop_heartbeat_check(c) /\ UNCHANGED elsewhere
    \/ \E c \in Ctx : stop_heartbeat_set(c) /\ UNCHANGED elsewhere
    \/ \E c \in Ctx : stop_heartbeat_join_call(c) /\ UNCHANGED elsewhere
    \/ \E c \in Ctx : stop_heartbeat_join(c) /\ UNCHANGED elsewhere
    \/ \E c \in AppCtx : call_start_heartbeat(c) /\ UNCHANGED elsewhere
    \/ \E c \in AppCtx : start_heartbeat_check(c) /\ UNCHANGED elsewhere
    \/ \E c \in AppCtx : start_heartbeat_clear(c) /\ UNCHANGED elsewhere
    \/ \E c \in AppCtx : start_heartbeat_create(c) /\ UNCHANGED elsewhere
    \/ \E c \in AppCtx : start_heartbeat_start(c) /\ UNCHANGED elsewhere
    \/ \E c \in AppCtx : app_return(c) /\ UNCHANGED elsewhere
    \/ \E t \in HbCtx : heartbeat_loop(t) /\ UNCHANGED elsewhere
    \/ \E t \in HbCtx : send_heartbeat_response(t) /\ UNCHANGED elsewhere
    \/ \E t \in HbCtx : heartbeat_wait(t) /\ UNCHANGED elsewhere

Spec == Start /\ [][Next]_vars

\* SpecShutdown: the process from start to exit. The main thread alone calls
\* the client's methods; signals arrive at any point, the handlers and the
\* atexit callback run in the main thread, the heartbeat thread beside it.
NextShutdown ==
    \/ call_register(main) /\ UNCHANGED elsewhere
    \/ \E c \in Ctx : register_attempt(c) /\ UNCHANGED elsewhere
    \/ \E c \in Ctx : register_sleep(c) /\ UNCHANGED elsewhere
    \/ call_deregister(main) /\ UNCHANGED elsewhere
    \/ \E c \in Ctx : deregister_check(c) /\ UNCHANGED elsewhere
    \/ \E c \in Ctx : deregister_delete(c) /\ UNCHANGED elsewhere
    \/ \E c \in Ctx : deregister_response(c) /\ UNCHANGED elsewhere
    \/ call_stop_heartbeat(main) /\ UNCHANGED elsewhere
    \/ \E c \in Ctx : stop_heartbeat_check(c) /\ UNCHANGED elsewhere
    \/ \E c \in Ctx : stop_heartbeat_set(c) /\ UNCHANGED elsewhere
    \/ \E c \in Ctx : stop_heartbeat_join(c) /\ UNCHANGED elsewhere
    \/ \E c \in Ctx : stop_heartbeat_join_call(c) /\ UNCHANGED elsewhere
    \/ call_start_heartbeat(main) /\ UNCHANGED elsewhere
    \/ start_heartbeat_check(main) /\ UNCHANGED elsewhere
    \/ start_heartbeat_clear(main) /\ UNCHANGED elsewhere
    \/ start_heartbeat_create(main) /\ UNCHANGED elsewhere
    \/ start_heartbeat_start(main) /\ UNCHANGED elsewhere
    \/ app_return(main) /\ UNCHANGED elsewhere
    \/ \E t \in HbCtx : heartbeat_loop(t) /\ UNCHANGED elsewhere
    \/ \E t \in HbCtx : send_heartbeat_response(t) /\ UNCHANGED elsewhere
    \/ \E t \in HbCtx : heartbeat_wait(t) /\ UNCHANGED elsewhere
    \/ \E signum \in {"SIGTERM", "SIGINT"} : signal_handler(signum) /\ UNCHANGED elsewhere
    \/ \E h \in SigCtx : signal_exit(h) /\ UNCHANGED elsewhere
    \/ normal_exit /\ UNCHANGED elsewhere
    \/ atexit_return /\ UNCHANGED elsewhere

SpecShutdown == Start /\ [][NextShutdown]_vars

\* a step of the signal handler or of the atexit callback running in the
\* main thread: deregister(), then sys.exit(0) or the return to the
\* interpreter
ShutdownStep ==
    /\ \/ \E c \in ShutdownCtx :
            \/ deregister_check(c)
            \/ stop_heartbeat_check(c)
            \/ stop_heartbeat_set(c)
            \/ stop_heartbeat_join_call(c)
            \/ stop_heartbeat_join(c)
            \/ deregister_delete(c)
            \/ deregister_response(c)
       \/ \E h \in SigCtx : signal_exit(h)
       \/ atexit_return
    /\ UNCHANGED elsewhere

\* a step of heartbeat thread t
HeartbeatStep(t) ==
    /\ \/ heartbeat_loop(t)
       \/ send_heartbeat_response(t)
       \/ register_attempt(t)
       \/ register_sleep(t)
       \/ heartbeat_wait(t)
    /\ UNCHANGED elsewhere

\* ------------------------------------------------- framework integrations
\* register()'s default retry budget
DefaultRetries == 10

\* "if client.register():" with the test left out
register_returned(ret) == TRUE

\* "if client.register():" in register_async and in the FastAPI startup
\* handler
register_succeeded(ret) == ret = "true"

\* register_async (Flask, in its own daemon thread after time.sleep(2)) and
\* the FastAPI startup handler: client.register() with its defaults
register_async_begin ==
    /\ Runnable(worker)
    /\ frame[worker].pc = "idle"
    /\ SetFrame(worker, [Frame("reg_post", "register") EXCEPT
                            !.max_retries = DefaultRetries, !.attempt = 1])
    /\ UNCHANGED <<registered, heartbeat_thread, stop_event, stack, phase, signals, hist>>

\* register() has returned: start_heartbeat() is called if it returned True,
\* otherwise the integration logs the failure and ends
register_async_branch ==
    /\ Runnable(worker)
    /\ frame[worker].pc = "done"
    /\ frame[worker].op = "register"
    /\ IF register_succeeded(frame[worker].ret)
       THEN SetFrame(worker, Frame("start_check", "start"))
       ELSE SetFrame(worker, [Frame("finished", "startup") EXCEPT !.ret = "false"])
    /\ UNCHANGED <<registered, heartbeat_thread, stop_event, stack, phase, signals, hist>>

\* start_heartbeat() has returned: the integration ends
register_async_end ==
    /\ Runnable(worker)
    /\ frame[worker].pc = "done"
    /\ frame[worker].op = "start"
    /\ SetFrame(worker, [Frame("finished", "startup") EXCEPT !.ret = "true"])
    /\ UNCHANGED <<registered, heartbeat_thread, stop_event, stack, phase, signals, hist>>

\* the FastAPI "shutdown" event handler, which runs once the application that
\* was started stops serving: client.deregister()
shutdown_event ==
    /\ Runnable(worker)
    /\ frame[worker].pc = "finished"
    /\ SetFrame(worker, Frame("dereg_check", "deregister"))
    /\ UNCHANGED <<registered, heartbeat_thread, stop_event, stack, phase, signals, hist>>

\* SpecStartup: an application started through init_service_discovery_flask
\* or init_service_discovery_fastapi; the integration and the heartbeat thread
\* it starts are the only users of the client.
NextStartup ==
    \/ register_async_begin /\ UNCHANGED elsewhere
    \/ register_attempt(worker) /\ UNCHANGED elsewhere
    \/ register_sleep(worker) /\ UNCHANGED elsewhere
    \/ register_async_branch /\ UNCHANGED elsewhere
    \/ start_heartbeat_check(worker) /\ UNCHANGED elsewhere
    \/ start_heartbeat_clear(worker) /\ UNCHANGED elsewhere
    \/ start_heartbeat_create(worker) /\ UNCHANGED elsewhere
    \/ start_heartbeat_start(worker) /\ UNCHANGED elsewhere
    \/ register_async_end /\ UNCHANGED elsewhere
    \/ shutdown_event /\ UNCHANGED elsewhere
    \/ deregister_check(worker) /\ UNCHANGED elsewhere
    \/ stop_heartbeat_check(worker) /\ UNCHANGED elsewhere
    \/ stop_heartbeat_set(worker) /\ UNCHANGED elsewhere
    \/ stop_heartbeat_join_call(worker) /\ UNCHANGED elsewhere
    \/ stop_heartbeat_join(worker) /\ UNCHANGED elsewhere
    \/ deregister_delete(worker) /\ UNCHANGED elsewhere
    \/ deregister_response(worker) /\ UNCHANGED elsewhere
    \/ \E t \in HbCtx : register_attempt(t) /\ UNCHANGED elsewhere
    \/ \E t \in HbCtx : register_sleep(t) /\ UNCHANGED elsewhere
    \/ \E t \in HbCtx : heartbeat_loop(t) /\ UNCHANGED elsewhere
    \/ \E t \in HbCtx : send_heartbeat_response(t) /\ UNCHANGED elsewhere
    \/ \E t \in HbCtx : heartbeat_wait(t) /\ UNCHANGED elsewhere

SpecStartup == Start /\ [][NextStartup]_vars

\* The process where the integration left it: register_async (or the FastAPI
\* startup handler) has not run yet ("none"), has ended after register()
\* returned False ("false"), or has ended after register() returned True and
\* start_heartbeat() started the thread ("true"), which is at its loop test.
Serving ==
    \E ret \in {"none", "true", "false"} :
      /\ registered = (ret = "true")
      /\ heartbeat_thread = IF ret = "true" THEN <<"hb", 1>> ELSE None
      /\ stop_event = FALSE
      /\ frame = [c \in Ctx |->
                    IF c = main THEN Frame("idle", "none")
                    ELSE IF c = worker
                         THEN IF ret = "none" THEN Frame("idle", "none")
                              ELSE [Frame("finished", "startup") EXCEPT !.ret = ret]
                    ELSE IF c = <<"hb", 1>> /\ ret = "true" THEN Frame("loop", "loop")
                    ELSE IF c \in HbCtx THEN Frame("unborn", "loop")
                    ELSE Frame("off", "none")]
      /\ stack = <<main>>
      /\ phase = "running"
      /\ signals = 0
      /\ shutReg = FALSE
      /\ shutDel = 0
      /\ shutReReg = FALSE
      /\ deregOk = FALSE
      /\ Elsewhere

\* SpecServing: the application serves requests in its main thread after the
\* integration, until a signal arrives or the server ends; the main thread
\* then runs the signal handlers and the atexit callback, beside the
\* heartbeat thread.
NextServing ==
    \/ \E t \in HbCtx : HeartbeatStep(t)
    \/ \E signum \in {"SIGTERM", "SIGINT"} : signal_handler(signum) /\ UNCHANGED elsewhere
    \/ normal_exit /\ UNCHANGED elsewhere
    \/ ShutdownStep

\* The main thread keeps running the handler it is in: every transport call
\* returns (timeout=10) and join(timeout=5) returns whether or not the thread
\* has ended, hence strong fairness. Every heartbeat thread keeps running:
\* its transport calls (timeout=5), sleeps and waits end.
SpecServing ==
    /\ Serving
    /\ [][NextServing]_vars
    /\ SF_vars(ShutdownStep)
    /\ \A t \in HbCtx : WF_vars(HeartbeatStep(t))

\* ------------------------------------------------------------ construction
\* service keys an application passes to ServiceDiscoveryClient(...)
ServiceKeys == {"", ServiceKey}

\* ServiceDiscoveryClient.__init__: the arguments are stored as they are
\* given, the thread slot, the Event and the flag are set up, and deregister
\* and _signal_handler are installed; no argument is examined.
ServiceDiscoveryClient(key) ==
    /\ service_key = NoEntry
    /\ service_key' = key
    /\ UNCHANGED <<client, cache, cache_ttl, now, fetch, response, gate, cancelled,
                   extraction, registry>>

\* the process before the client is constructed
StartConstruct ==
    /\ Init
    /\ AuthClientInit
    /\ NoRequest
    /\ cancelled = {}
    /\ service_key = NoEntry
    /\ extraction = NoExtraction
    /\ registry = PermissionRegistryInit

\* SpecConstruct: init_service_discovery_flask or _fastapi with any service
\* key: the client is constructed, then the integration runs
NextConstruct ==
    \/ \E key \in ServiceKeys : ServiceDiscoveryClient(key)
    \/ service_key # NoEntry /\ NextStartup

SpecConstruct == StartConstruct /\ [][NextConstruct]_vars

\* ------------------------------------------- starting and stopping the loop
\* the step is stop_heartbeat()'s self._stop_heartbeat.set()
SignalSet == \E c \in Ctx : Leaves(c, "stop_set")

\* the observer of SpecHeartbeat: the threads that were alive when the event
\* was set and have not ended since
Observed ==
    /\ cancelled' = {t \in HbCtx :
                        /\ is_alive(t)'
                        /\ t \in cancelled \/ (SignalSet /\ is_alive(t))}
    /\ UNCHANGED <<cache, cache_ttl, now, fetch, response, gate, others>>

\* SpecHeartbeat: two threads of the application call start_heartbeat() and
\* stop_heartbeat() at any time, beside the heartbeat threads they start.
NextHeartbeat ==
    \/ \E c \in AppCtx : call_start_heartbeat(c) /\ Observed
    \/ \E c \in AppCtx : start_heartbeat_check(c) /\ Observed
    \/ \E c \in AppCtx : start_heartbeat_clear(c) /\ Observed
    \/ \E c \in AppCtx : start_heartbeat_create(c) /\ Observed
    \/ \E c \in AppCtx : start_heartbeat_start(c) /\ Observed
    \/ \E c \in AppCtx : call_stop_heartbeat(c) /\ Observed
    \/ \E c \in AppCtx : stop_heartbeat_check(c) /\ Observed
    \/ \E c \in AppCtx : stop_heartbeat_set(c) /\ Observed
    \/ \E c \in AppCtx : stop_heartbeat_join_call(c) /\ Observed
    \/ \E c \in AppCtx : stop_heartbeat_join(c) /\ Observed
    \/ \E c \in AppCtx : app_return(c) /\ Observed
    \/ \E t \in HbCtx : heartbeat_loop(t) /\ Observed
    \/ \E t \in HbCtx : send_heartbeat_response(t) /\ Observed
    \/ \E t \in HbCtx : register_attempt(t) /\ Observed
    \/ \E t \in HbCtx : register_sleep(t) /\ Observed
    \/ \E t \in HbCtx : heartbeat_wait(t) /\ Observed

SpecHeartbeat == Start /\ [][NextHeartbeat]_vars

\* -------------------------------------------------------------- AuthClient
\* the clock runs from 0 to MaxTime; at most MaxCalls calls are made
MaxTime == 4
MaxCalls == 4

\* timedelta(minutes=5), in ticks of the clock
CacheTTL == 2

\* what the auth service lists under "permissions"
PermissionSets == {{}, {"read"}, {"read", "write"}}

\* the GET is answered 200, 404 or another status (raise_for_status() raises
\* HTTPError), or fails with ConnectionError or Timeout
TransportOutcomes == {"200", "404", "status", "conn", "timeout"}

\* _is_cached
is_cached(key) ==
    key \in DOMAIN cache /\ key \in DOMAIN cache_ttl /\ now < cache_ttl[key]

\* "except requests.RequestException": HTTPError, ConnectionError and Timeout
\* are its subclasses
is_request_exception(outcome) == outcome \in {"status", "conn", "timeout"}

\* (mutation of cache_get: the except branch returns [])
cache_get_nothing(key) == {}

\* self._cache.get(cache_key, [])
cache_get(key) == IF key \in DOMAIN cache THEN cache[key] ELSE {}

\* the record of a call
Fetched(user_id, force_refresh, called, outcome, result) ==
    [n |-> fetch.n + 1, user |-> user_id, force |-> force_refresh, called |-> called,
     outcome |-> outcome, result |-> result, raised |-> FALSE]

\* get_user_permissions(user_id, force_refresh): the cached value if there is
\* a fresh one and no refresh is forced; otherwise the GET: 404 returns [],
\* 200 stores the listed permissions with the expiry and returns them, a
\* RequestException returns what the cache holds for the user, or [].
get_user_permissions(user_id, force_refresh) ==
    /\ fetch.n < MaxCalls
    /\ IF ~force_refresh /\ is_cached(user_id)
       THEN /\ fetch' = Fetched(user_id, force_refresh, FALSE, NoEntry, cache[user_id])
            /\ UNCHANGED <<cache, cache_ttl, response>>
       ELSE \E o \in TransportOutcomes, permissions \in PermissionSets :
              IF o = "404"
              THEN /\ fetch' = Fetched(user_id, force_refresh, TRUE, o, {})
                   /\ response' = [response EXCEPT ![user_id] =
                                      [at |-> now, outcome |-> o, value |-> {}]]
                   /\ UNCHANGED <<cache, cache_ttl>>
              ELSE IF is_request_exception(o)
              THEN /\ fetch' = Fetched(user_id, force_refresh, TRUE, o, cache_get(user_id))
                   /\ UNCHANGED <<cache, cache_ttl, response>>
              ELSE /\ cache' = (user_id :> permissions) @@ cache
                   /\ cache_ttl' = (user_id :> now + CacheTTL) @@ cache_ttl
                   /\ fetch' = Fetched(user_id, force_refresh, TRUE, o, permissions)
                   /\ response' = [response EXCEPT ![user_id] =
                                      [at |-> now, outcome |-> o, value |-> permissions]]
    /\ UNCHANGED <<now, gate, cancelled, client, others>>

\* datetime.now() moves on
clock_tick ==
    /\ now < MaxTime
    /\ now' = now + 1
    /\ UNCHANGED <<cache, cache_ttl, fetch, response, gate, cancelled, client, others>>

\* SpecCache: one AuthClient, called for two users as time passes
NextCache ==
    \/ \E user_id \in Users, force_refresh \in BOOLEAN :
         get_user_permissions(user_id, force_refresh)
    \/ clock_tick

SpecCache == Start /\ [][NextCache]_vars

\* --------------------------------------------------------- permission gate
Permissions == {"billing.view", "billing.edit"}
Roles == {"manager", "auditor"}

\* g.user: None, or a UserContext
NoUser == [present |-> FALSE, permissions |-> {}, roles |-> {}, is_admin |-> FALSE]

UserContext ==
    [present : {TRUE}, permissions : SUBSET Permissions, roles : SUBSET Roles,
     is_admin : BOOLEAN]

\* UserContext.has_permission, has_any_permission, has_role
has_permission(user, permission) == permission \in user.permissions

has_any_permission(user, permissions) ==
    \E perm \in permissions : perm \in user.permissions

has_role(user, role) == role \in user.roles

\* (mutation of admin_bypass: allow_admin is not looked at)
admin_always(user, allow_admin) == user.is_admin

\* "if allow_admin and user.is_admin"
admin_bypass(user, allow_admin) == allow_admin /\ user.is_admin

\* what decorated_function returns: a JSON error with its status, or what the
\* wrapped handler returns
Blank ==
    [status |-> 0, code |-> NoEntry, required_permission |-> NoEntry,
     required_permissions |-> {}, required_role |-> NoEntry, handler |-> FALSE]

AuthRequired == [Blank EXCEPT !.status = 401, !.code = "AUTH_REQUIRED"]

Handler == [Blank EXCEPT !.handler = TRUE]

require_permission(user, permission, allow_admin) ==
    IF ~user.present THEN AuthRequired
    ELSE IF admin_bypass(user, allow_admin) THEN Handler
    ELSE IF ~has_permission(user, permission)
         THEN [Blank EXCEPT !.status = 403, !.code = "PERMISSION_DENIED",
                            !.required_permission = permission]
         ELSE Handler

require_any_permission(user, permissions, allow_admin) ==
    IF ~user.present THEN AuthRequired
    ELSE IF admin_bypass(user, allow_admin) THEN Handler
    ELSE IF ~has_any_permission(user, permissions)
         THEN [Blank EXCEPT !.status = 403, !.code = "PERMISSION_DENIED",
                            !.required_permissions = permissions]
         ELSE Handler

require_role(user, role, allow_admin) ==
    IF ~user.present THEN AuthRequired
    ELSE IF admin_bypass(user, allow_admin) THEN Handler
    ELSE IF ~has_role(user, role)
         THEN [Blank EXCEPT !.status = 403, !.code = "ROLE_DENIED",
                            !.required_role = role]
         ELSE Handler

\* a request at a handler wrapped by one of the three decorators
GateRequests ==
    [decorator : {"require_permission", "require_any_permission", "require_role"},
     user : {NoUser} \cup UserContext,
     permission : Permissions, permissions : SUBSET Permissions, role : Roles,
     allow_admin : BOOLEAN]

\* decorated_function runs for the request
decorated_function ==
    /\ ~gate.served
    /\ LET q == gate.request IN
       gate' = [gate EXCEPT
                  !.served = TRUE,
                  !.response =
                     CASE q.decorator = "require_permission" ->
                            require_permission(q.user, q.permission, q.allow_admin)
                       [] q.decorator = "require_any_permission" ->
                            require_any_permission(q.user, q.permissions, q.allow_admin)
                       [] q.decorator = "require_role" ->
                            require_role(q.user, q.role, q.allow_admin)]
    /\ UNCHANGED <<cache, cache_ttl, now, fetch, response, cancelled, client, others>>

\* SpecGate: any one request at any one guarded handler
StartGate ==
    /\ Init
    /\ AuthClientInit
    /\ cancelled = {}
    /\ Constructed
    /\ extraction = NoExtraction
    /\ registry = PermissionRegistryInit
    /\ gate \in [request : GateRequests, served : {FALSE}, response : {Blank}]

NextGate == decorated_function

SpecGate == StartGate /\ [][NextGate]_vars

\* ------------------------------------------------------ extract_user_context
\* headers.get(...) of a header the request does not carry
NoHeader == NoEntry

\* Authorization headers, as <<scheme with its blank, rest>>; <<>> when the
\* request carries none. The token is a JWT signed with the service's secret
\* ("signed"), a JWT with another signature ("forged"), or no JWT ("garbage").
JwtTokens == {"signed", "forged", "garbage"}
AuthorizationHeaders ==
    {<<>>, <<"Basic ", "garbage">>} \cup {<<"Bearer ", token>> : token \in JwtTokens}

\* X-Internal-Auth tokens: "abc" is not padded base64; "/w==" is the byte ff,
\* not UTF-8; "eA==" is the text x, not JSON; "W10=" is the JSON array [];
\* "e30=" is the JSON object {}
InternalTokens == {"abc", "/w==", "eA==", "W10=", "e30="}

Headers ==
    [Authorization : AuthorizationHeaders,
     X_User_Id : {NoHeader, "", "42"},
     X_User_Name : {NoHeader, "", "alice"},
     X_Internal_Auth : {NoHeader, ""} \cup InternalTokens]

\* what extract_user_context gives: a UserContext, None, or an exception
Outcome(strategy, identity, raised) ==
    [strategy |-> strategy, identity |-> identity, raised |-> raised]

\* truth value of a header value: neither None nor empty
is_set(value) == value \notin {NoHeader, ""}

\* "auth_header and auth_header.startswith('Bearer ')"
is_bearer(auth_header) == auth_header # <<>> /\ auth_header[1] = "Bearer "

\* jwt.decode(token, secret, algorithms=['HS256']) when verify_signature and
\* a secret are set, jwt.decode(token, options={"verify_signature": False})
\* otherwise: DecodeError for what is no JWT, InvalidSignatureError for a
\* signature that fails the verification; both are jwt.InvalidTokenError
jwt_decode(token, jwt_secret, verify_signature) ==
    IF token = "garbage" THEN "DecodeError"
    ELSE IF token = "forged" /\ verify_signature /\ jwt_secret # NoEntry
         THEN "InvalidSignatureError"
         ELSE NoEntry

\* _extract_from_jwt: "except jwt.InvalidTokenError: raise InvalidTokenError"
extract_from_jwt(token, jwt_secret, verify_signature) ==
    IF jwt_decode(token, jwt_secret, verify_signature) = NoEntry
    THEN Outcome("jwt", TRUE, NoEntry)
    ELSE Outcome("jwt", FALSE, "InvalidTokenError")

\* _extract_from_gateway_headers: builds the UserContext from the headers;
\* the one decoding it does falls back to the raw value
extract_from_gateway_headers(headers) == Outcome("gateway", TRUE, NoEntry)

\* base64.b64decode(token).decode('utf-8'), json.loads(decoded) and
\* data.get(...): the exception the token runs into, if any
internal_token_error(token) ==
    CASE token = "abc" -> "binascii.Error"
      [] token = "/w==" -> "UnicodeDecodeError"
      [] token = "eA==" -> "JSONDecodeError"
      [] token = "W10=" -> "AttributeError"
      [] OTHER -> NoEntry

\* "except (ValueError, json.JSONDecodeError, UnicodeDecodeError)":
\* binascii.Error, JSONDecodeError and UnicodeDecodeError are ValueErrors
is_value_error(error) ==
    error \in {"binascii.Error", "UnicodeDecodeError", "JSONDecodeError"}

\* _extract_from_internal_token
extract_from_internal_token(token) ==
    LET error == internal_token_error(token) IN
    IF error = NoEntry THEN Outcome("internal", TRUE, NoEntry)
    ELSE IF is_value_error(error) THEN Outcome("internal", FALSE, "InvalidTokenError")
    ELSE Outcome("internal", FALSE, error)

\* extract_user_context(headers) of an AuthMiddleware constructed with
\* jwt_secret and verify_signature
extract_user_context ==
    /\ ~extraction.done
    /\ LET headers == extraction.headers IN
       extraction' = [extraction EXCEPT
          !.done = TRUE,
          !.result =
             IF is_bearer(headers.Authorization)
             THEN extract_from_jwt(headers.Authorization[2], extraction.jwt_secret,
                                   extraction.verify_signature)
             ELSE IF is_set(headers.X_User_Id) /\ is_set(headers.X_User_Name)
             THEN extract_from_gateway_headers(headers)
             ELSE IF is_set(headers.X_Internal_Auth)
             THEN extract_from_internal_token(headers.X_Internal_Auth)
             ELSE Outcome("none", FALSE, NoEntry)]
    /\ UNCHANGED <<client, cache, cache_ttl, now, fetch, response, gate, cancelled,
                   service_key, registry>>

\* SpecExtract: any one request at any AuthMiddleware
StartExtract ==
    /\ Init
    /\ AuthClientInit
    /\ NoRequest
    /\ cancelled = {}
    /\ Constructed
    /\ registry = PermissionRegistryInit
    /\ extraction \in [jwt_secret : {NoEntry, "secret"}, verify_signature : BOOLEAN,
                       headers : Headers, done : {FALSE},
                       result : {Outcome("none", FALSE, NoEntry)}]

NextExtract == extract_user_context

SpecExtract == StartExtract /\ [][NextExtract]_vars

\* ------------------------------------------------------ PermissionRegistry
\* the names and the categories an application registers; "" is the empty
\* string and NoCategory the default category=None
PermissionNames == {"", "docs.read", "docs.write"}
Categories == {"docs", "admin"}
NoCategory == NoEntry
CategoryArguments == {NoCategory, ""} \cup Categories

\* Permission(name, display_name, description, category); the two texts play
\* no part in the registry
Permission(name, category) == [name |-> name, category |-> category]

\* "if category:": neither None nor the empty string
is_truthy(category) == category \notin {NoCategory, ""}

\* "name not in self._categories[category]"
listed(names, name) == \E i \in 1..Len(names) : names[i] = name

\* PermissionRegistry.register(name, display_name, description, category):
\* an empty name raises ConfigurationError; otherwise the permission is
\* stored under its name and, if a category is given, the name is appended
\* to the category's list unless the list has it.
register(name, category) ==
    /\ IF name = ""
       THEN registry' = [registry EXCEPT !.raised = "ConfigurationError"]
       ELSE LET created == IF is_truthy(category) /\ category \notin DOMAIN registry.categories
                           THEN (category :> <<>>) @@ registry.categories
                           ELSE registry.categories
                appended == IF is_truthy(category) /\ ~listed(created[category], name)
                            THEN [created EXCEPT ![category] = Append(@, name)]
                            ELSE created
            IN registry' = [permissions |-> (name :> Permission(name, category))
                                            @@ registry.permissions,
                            categories |-> appended,
                            raised |-> NoEntry]
    /\ UNCHANGED <<client, cache, cache_ttl, now, fetch, response, gate, cancelled,
                   service_key, extraction>>

\* get_permissions_by_category(category): the permissions stored under the
\* names of the category's list, in the list's order
get_permissions_by_category(category) ==
    IF category \notin DOMAIN registry.categories
    THEN <<>>
    ELSE [i \in 1..Len(registry.categories[category]) |->
            registry.permissions[registry.categories[category][i]]]

\* SpecRegistry: an application declares its permissions, in any order and
\* any number of times
NextRegistry ==
    \E name \in PermissionNames, category \in CategoryArguments : register(name, category)

SpecRegistry == Start /\ [][NextRegistry]_vars

\* ------------------------------------------------------------------ claims
\* a heartbeat thread issues a transport call: the heartbeat POST, or a
\* register POST of the re-registration
HeartbeatThreadCalls(t) ==
    \/ frame[t].pc = "loop" /\ frame'[t].pc = "hb_resp"
    \/ frame[t].pc = "reg_post" /\ frame'[t] # frame[t]

\* C1: when the shutdown of a client that was registered has finished, the
\* DELETE /unregister call was issued exactly once during it, no heartbeat
\* thread is alive and no register call succeeded after the DELETE.
C1_ShutdownDeregistersOnce ==
    (phase = "exited" /\ shutReg) =>
        (shutDel = 1 /\ AliveThreads = {} /\ ~shutReReg)

\* C2: among deregister() calls in progress at the same time, at most one
\* invokes the transport's deregister endpoint.
C2_ConcurrentDeregisterOneDelete ==
    Cardinality({c \in Ctx : frame[c].op = "deregister" /\ frame[c].calls >= 1}) <= 1

\* C3: the heartbeat thread is stopped when deregister() issues the DELETE,
\* and once a DELETE has been issued no heartbeat thread issues a heartbeat
\* or register transport call.
C3_NoHeartbeatAfterDeregister ==
    [][/\ \A c \in Ctx : Leaves(c, "dereg_delete") => AliveThreads = {}
       /\ \A t \in HbCtx : shutDel > 0 => ~HeartbeatThreadCalls(t)]_vars

\* C4: a deregister() that found the client registered returns having issued
\* exactly one DELETE and with _registered False, whatever the DELETE's outcome.
C4_DeregisteredWhateverOutcome ==
    [][\A c \in Ctx : Leaves(c, "dereg_resp") =>
          (frame'[c].calls = 1 /\ ~registered')]_vars

\* C5: deregister() on a client that is not registered returns True at once,
\* issues no transport call and changes neither the registration state, nor
\* the stop event, nor the heartbeat thread.
C5_DeregisterIdempotent ==
    [][\A c \in Ctx : (Leaves(c, "dereg_check") /\ ~registered) =>
          /\ frame'[c].pc = "done"
          /\ frame'[c].ret = "true"
          /\ frame'[c].calls = 0
          /\ registered' = registered
          /\ stop_event' = stop_event
          /\ heartbeat_thread' = heartbeat_thread
          /\ \A t \in HbCtx : frame'[t] = frame[t]]_vars

\* C5 witness: a deregister() call has returned True without a transport call
C5_Witness ==
    \E c \in Ctx : /\ frame[c].op = "deregister" /\ frame[c].pc = "done"
                   /\ frame[c].ret = "true" /\ frame[c].calls = 0
                   /\ ~registered

\* C6: a shutdown trigger whose deregister() starts after a deregister() of
\* this shutdown got 200 issues no DELETE.
C6_NoDeleteAfterSuccess ==
    [][\A c \in ShutdownCtx : Leaves(c, "dereg_delete") => ~frame[c].late]_vars

\* C7: at most one heartbeat thread is alive.
C7_AtMostOneHeartbeatThread == Cardinality(AliveThreads) <= 1

\* C8: start_heartbeat() called while the thread of the previous call is
\* alive returns without error, creates no thread and leaves the stop event
\* alone: that thread is the one heartbeat thread, before and after.
C8_StartTwiceOneThread ==
    [][\A c \in AppCtx : (Leaves(c, "start_check") /\ is_alive(heartbeat_thread)) =>
          /\ frame'[c].pc = "done"
          /\ frame'[c].ret = "already"
          /\ AliveThreads = {heartbeat_thread}
          /\ AliveThreads' = AliveThreads
          /\ heartbeat_thread' = heartbeat_thread
          /\ stop_event' = stop_event
          /\ \A t \in HbCtx : frame'[t] = frame[t]]_vars

\* C8 witness: the second start_heartbeat() has returned, one thread is alive
C8_Witness ==
    /\ frame[main].op = "start" /\ frame[main].pc = "done"
    /\ frame[main].ret = "already"
    /\ AliveThreads = {heartbeat_thread}
    /\ ~stop_event

\* C9: stop_heartbeat() with no heartbeat thread alive neither sets the stop
\* event nor joins: it returns at once and leaves the stop event, the thread
\* handle, the threads and the registration state as they were.
C9_StopWithoutThreadNoop ==
    [][\A c \in Ctx : (Leaves(c, "stop_check") /\ AliveThreads = {}) =>
          /\ frame'[c].pc \in {"done", "dereg_delete"}
          /\ frame[c].op = "stop" => (frame'[c].pc = "done" /\ frame'[c].ret = "noop")
          /\ stop_event' = stop_event
          /\ heartbeat_thread' = heartbeat_thread
          /\ registered' = registered
          /\ \A t \in HbCtx : frame'[t] = frame[t]]_vars

\* C9 witness: stop_heartbeat() has returned as a no-op after an earlier
\* thread ended (the stop event is still set, the handle still names it)
C9_Witness ==
    \E c \in AppCtx : /\ frame[c].op = "stop" /\ frame[c].pc = "done"
                      /\ frame[c].ret = "noop"
                      /\ heartbeat_thread # None /\ AliveThreads = {} /\ stop_event

\* C10: register(max_retries >= 1) returns True at the first attempt k that
\* gets 200, after exactly k calls and k - 1 delays, with _registered True;
\* a failed attempt (another status, a connection error, another exception)
\* is followed by a delay only when another attempt follows; with no 200 it
\* returns False after max_retries calls and max_retries - 1 delays and has
\* not written _registered.
C10_RegisterRetries ==
    [][\A c \in AppCtx :
          /\ Leaves(c, "reg_post") =>
                LET f == frame'[c] IN
                /\ f.calls = frame[c].calls + 1
                /\ f.calls = f.attempt
                /\ f.calls <= f.max_retries
                /\ f.out = "200" <=> (f.pc = "done" /\ f.ret = "true")
                /\ f.out = "200" => (registered' /\ f.delays = f.calls - 1)
                /\ f.out # "200" => registered' = registered
                /\ (f.out # "200" /\ f.calls < f.max_retries) =>
                       (f.pc = "reg_sleep" /\ f.delays = f.calls)
                /\ (f.out # "200" /\ f.calls = f.max_retries) =>
                       (f.pc = "done" /\ f.ret = "false"
                        /\ f.delays = f.max_retries - 1)
          /\ Leaves(c, "reg_sleep") =>
                /\ frame'[c].pc = "reg_post"
                /\ frame'[c].attempt = frame[c].attempt + 1
                /\ frame'[c].calls = frame[c].calls
                /\ frame'[c].delays = frame[c].delays
                /\ registered' = registered]_vars

\* C10 witness: register(max_retries >= 2) failed once, slept once, got 200 on
\* the second call and returned True
C10_Witness ==
    \E c \in AppCtx : /\ frame[c].op = "register" /\ frame[c].pc = "done"
                      /\ frame[c].ret = "true" /\ frame[c].out = "200"
                      /\ frame[c].max_retries >= 2
                      /\ frame[c].calls = 2 /\ frame[c].delays = 1
                      /\ registered

C12_NotFoundReRegisters ==
    [][\A t \in HbCtx :
         /\ (Leaves(t, "hb_resp") /\ frame'[t].pc # "hb_wait") =>
               /\ ~registered'
               /\ frame'[t].pc = "reg_post"
               /\ frame'[t].out = "404"
               /\ frame'[t].max_retries = 3
               /\ frame'[t].attempt = 1
               /\ frame'[t].calls = 0
         /\ Leaves(t, "reg_post") =>
               /\ frame[t].max_retries = 3
               /\ frame'[t].pc \in {"reg_sleep", "hb_wait"}
               /\ frame[t].calls + 1 <= 3
               /\ frame'[t].pc = "reg_sleep" => frame'[t].calls < 3
         /\ Leaves(t, "reg_sleep") =>
               /\ frame'[t].pc = "reg_post"
               /\ frame'[t].calls = frame[t].calls]_vars

\* a heartbeat thread whose tick was answered 404 is about to make the third
\* register call of the re-registration; the client is unregistered
C12_Witness ==
    \E t \in HbCtx :
        /\ frame[t].pc = "reg_post"
        /\ frame[t].attempt = 3
        /\ frame[t].calls = 2
        /\ ~registered

\* C13: when the register() called after a 404 succeeds, the client is
\* registered again before the tick ends and the loop goes on: the step
\* neither ends the thread nor replaces the client's thread nor touches the
\* stop event, the thread waits, and after the wait it sends the next
\* heartbeat unless the event was set. (A register() that returns before its
\* last attempt has succeeded.)
C13_ReRegistrationKeepsLoop ==
    [][\A t \in HbCtx :
         /\ (Leaves(t, "reg_post") /\ frame'[t].pc = "hb_wait"
                /\ frame[t].attempt < frame[t].max_retries) => registered'
         /\ (Leaves(t, "reg_post") /\ registered' # registered) =>
               /\ registered'
               /\ frame'[t].pc = "hb_wait"
               /\ stop_event' = stop_event
               /\ heartbeat_thread' = heartbeat_thread
               /\ AliveThreads' = AliveThreads
               /\ t \in AliveThreads'
         /\ Leaves(t, "hb_wait") => frame'[t].pc = "loop"
         /\ (Leaves(t, "loop") /\ ~stop_event) => frame'[t].pc = "hb_resp"]_vars

\* the client's heartbeat thread waits for the next tick and the client is
\* registered, which only a re-registration by a heartbeat thread brings
\* about where the application never calls register(); the stop event is
\* not set
C13_Witness ==
    \E t \in HbCtx :
        /\ frame[t].pc = "hb_wait"
        /\ heartbeat_thread = t
        /\ registered
        /\ ~stop_event
        /\ \A c \in AppCtx : frame[c].op # "register"

\* C19: a heartbeat tick answered anything but 404 (200, another status, a
\* connection error, a timeout or other exception) changes neither the
\* registration state nor the thread or the event, makes no register call and
\* goes to the wait; the tick that starts a re-registration is the one
\* answered 404.
C19_HeartbeatFrame ==
    [][\A t \in HbCtx :
         Leaves(t, "hb_resp") =>
            IF frame'[t].pc = "reg_post"
            THEN frame'[t].out = "404"
            ELSE /\ frame'[t] = Frame("hb_wait", "loop")
                 /\ registered' = registered
                 /\ heartbeat_thread' = heartbeat_thread
                 /\ stop_event' = stop_event
                 /\ \A c \in Ctx \ {t} : frame'[c] = frame[c]]_vars

\* the client's heartbeat thread waits after a tick that made no register
\* call, and the client is registered
C19_Witness ==
    \E t \in HbCtx :
        /\ frame[t] = Frame("hb_wait", "loop")
        /\ heartbeat_thread = t
        /\ registered

\* the step is a get_user_permissions(u, force_refresh) call
Gets(u) == fetch'.n = fetch.n + 1 /\ fetch'.user = u

\* C14: a call for u without force_refresh made less than the TTL after the
\* auth service last answered a call for u makes no transport call and returns
\* what that answer gave; a call made when there was no answer yet, or the
\* TTL after it or later, makes a transport call.
C14_OneCallPerWindow ==
    [][\A u \in Users :
         (Gets(u) /\ ~fetch'.force) =>
            IF response[u].at >= 0 /\ now < response[u].at + CacheTTL
            THEN ~fetch'.called /\ fetch'.result = response[u].value
            ELSE fetch'.called]_vars

C16_NotFoundCached ==
    [][\A u \in Users :
         /\ (Gets(u) /\ fetch'.outcome = "404") =>
               /\ fetch'.result = {}
               /\ u \in DOMAIN cache'
               /\ cache'[u] = {}
               /\ cache_ttl'[u] = now + CacheTTL
         /\ (Gets(u) /\ ~fetch'.force /\ response[u].outcome = "404"
                     /\ now < response[u].at + CacheTTL) =>
               ~fetch'.called /\ fetch'.result = {}]_vars

\* C17: a served request got 401 and no handler call when it carried no
\* identity; 403 with the required permission, permission list or role and no
\* handler call when its identity fails the decorator's check and is not an
\* admin admitted by allow_admin; and the handler's own response otherwise.
C17_PermissionGate ==
    gate.served =>
       LET q == gate.request
           r == gate.response
           passes ==
              CASE q.decorator = "require_permission" -> q.permission \in q.user.permissions
                [] q.decorator = "require_any_permission" ->
                     q.permissions \cap q.user.permissions # {}
                [] q.decorator = "require_role" -> q.role \in q.user.roles
           admitted == q.allow_admin /\ q.user.is_admin
       IN  IF ~q.user.present
           THEN r.status = 401 /\ ~r.handler
           ELSE IF ~passes /\ ~admitted
           THEN /\ r.status = 403
                /\ ~r.handler
                /\ CASE q.decorator = "require_permission" ->
                            r.required_permission = q.permission
                     [] q.decorator = "require_any_permission" ->
                            r.required_permissions = q.permissions
                     [] q.decorator = "require_role" -> r.required_role = q.role
           ELSE r.handler /\ r.status \notin {401, 403}

\* a user holding only billing.view was refused at a handler that requires
\* billing.edit, with billing.edit named in the 403 response
C17_Witness ==
    /\ gate.served
    /\ gate.request.decorator = "require_permission"
    /\ gate.request.user.present
    /\ gate.request.user.permissions = {"billing.view"}
    /\ gate.request.permission = "billing.edit"
    /\ gate.response.status = 403
    /\ gate.response.required_permission = "billing.edit"
    /\ ~gate.response.handler

\* the application's deregister() has returned True and it calls nothing more
DeregisterReturned ==
    /\ frame[worker].pc = "done"
    /\ frame[worker].op = "deregister"
    /\ frame[worker].ret = "true"

\* C18: the client becomes registered only in the step of a register call
\* (answered 200), stops being registered only in the step of a heartbeat
\* answered 404 or of deregister()'s DELETE response, and once the
\* application's deregister() has returned True, with no register() call
\* after it, the client is never registered again.
C18_LegalEdges ==
    [][/\ (~registered /\ registered') => \E c \in Ctx : Leaves(c, "reg_post")
       /\ (registered /\ ~registered') =>
             \E c \in Ctx : \/ Leaves(c, "hb_resp") /\ frame'[c].pc = "reg_post"
                            \/ Leaves(c, "dereg_resp")
       /\ DeregisterReturned => ~registered']_vars

\* C20: a heartbeat thread that was alive when stop_heartbeat() set the event
\* ends at its next loop test, whatever start_heartbeat() and stop_heartbeat()
\* calls run beside it: it wakes from the wait, sends no heartbeat after the
\* tick that was in flight, and terminates.
C20_CancelledThreadEnds ==
    [][\A t \in HbCtx :
         /\ (t \in cancelled /\ Leaves(t, "hb_wait")) => frame'[t].pc = "loop"
         /\ (t \in cancelled /\ frame[t].pc = "loop" /\ frame'[t] # frame[t]) =>
               /\ frame'[t].pc = "unborn"
               /\ ~is_alive(t)']_vars

\* C21: once a signal has been delivered the process reaches its exit,
\* whatever the heartbeat threads are doing, whatever the DELETE is answered
\* and however many further signals arrive meanwhile.
C21_ShutdownReachesExit == (signals > 0) ~> (phase = "exited")

\* the process has exited after a signal although a heartbeat thread was still
\* running and the client was still registered (the DELETE failed or was
\* never sent)
C21_Witness ==
    /\ phase = "exited"
    /\ signals > 0
    /\ registered
    /\ AliveThreads # {}

\* C22: a registry call that fails (another status than 200, a refused
\* connection, a timeout or any other exception) never raises out of
\* register(), send_heartbeat() or deregister(): register() whose last
\* attempt failed and deregister() whose DELETE failed return False, and a
\* heartbeat thread that handles the outcome of a heartbeat or of a
\* re-registration attempt stays alive, inside its loop.
C22_TransportFailureReturned ==
    [][/\ \A c \in Ctx \ HbCtx :
            /\ frame[c].pc \in {"reg_post", "dereg_resp"}
            /\ frame'[c].pc = "done"
            => /\ frame'[c].ret \in {"true", "false"}
               /\ frame'[c].out # "200" => frame'[c].ret = "false"
       /\ \A t \in HbCtx :
            /\ frame[t].pc \in {"hb_resp", "reg_post"}
            /\ frame'[t] # frame[t]
            => /\ is_alive(t)'
               /\ frame'[t].pc \in {"hb_wait", "reg_post", "reg_sleep"}]_vars

C22_Witness ==
    /\ frame[main].op = "register"
    /\ frame[main].pc = "done"
    /\ frame[main].out = "conn"
    /\ frame[main].ret = "false"
    /\ \E h \in SigCtx :
         /\ frame[h].pc = "done"
         /\ frame[h].out = "exc"
         /\ frame[h].ret = "false"
    /\ \E t \in HbCtx : frame[t].pc = "hb_wait"

\* the thread start_heartbeat() started in the integration
TheThread == <<"hb", 1>>

\* the registry answers thread t's heartbeat with 404
NotFoundAnswered(t) ==
    /\ send_heartbeat_response(t)
    /\ frame'[t].pc = "reg_post"
    /\ UNCHANGED elsewhere

\* the registry answers thread t's register call with 200
RegisterAccepted(t) ==
    /\ t \in HbCtx
    /\ register_attempt(t)
    /\ registered'
    /\ UNCHANGED elsewhere

\* the re-registration of heartbeat thread t has used up its attempts: the
\* thread waits for its next tick and the client is not registered
Exhausted(t) == frame[t].pc = "hb_wait" /\ ~registered

\* C23: in a serving application (nobody but the heartbeat thread the
\* integration started calls register()), the client is not registered while the re-registration runs;
\* its last failed attempt leaves the client unregistered and the thread
\* alive at its wait; a 200 to a re-registration attempt makes the client
\* registered with the thread still in its loop; and, the heartbeat thread
\* being scheduled, the unregistered client's thread sends its next
\* heartbeat, unless the stop event is set or the process ends first; if
\* moreover the registry again answers a heartbeat with 404 and a register
\* call with 200 whenever it is asked often enough, the client becomes
\* registered again, with no call by the application.
C23_ExhaustedKeepsTicking ==
    /\ [][/\ frame[TheThread].pc = "reg_post"
          /\ frame'[TheThread] # frame[TheThread]
          => /\ ~registered
             /\ frame[TheThread].attempt <= ReRegisterRetries
             /\ frame[TheThread].attempt = ReRegisterRetries
                => frame'[TheThread] = Frame("hb_wait", "loop")
             /\ frame'[TheThread].pc = "reg_sleep" => ~registered'
             /\ registered' => frame'[TheThread] = Frame("hb_wait", "loop")]_vars
    /\ Exhausted(TheThread) ~> (frame[TheThread].pc = "hb_resp" \/ stop_event \/ phase = "exited")
    /\ SF_vars(NotFoundAnswered(TheThread)) /\ SF_vars(RegisterAccepted(TheThread))
       => (Exhausted(TheThread) ~> (registered \/ stop_event \/ phase = "exited"))

C23_Witness ==
    /\ Exhausted(TheThread)
    /\ heartbeat_thread = TheThread
    /\ ~stop_event
    /\ ~ShutdownBegun

\* C24: an entry whose expiry has passed is treated as absent: a call for a
\* user whose entry is absent or expired makes the transport call, and when
\* that call fails it returns the empty set, never the value of the expired
\* entry.
C24_ExpiredEntryAbsent ==
    [][\A u \in Users :
         (Gets(u) /\ ~is_cached(u)) =>
            /\ fetch'.called
            /\ is_request_exception(fetch'.outcome) => fetch'.result = {}]_vars

\* C27: a call for u without force_refresh whose own transport call, if it
\* makes one, does not fail returns the permission set of the most recent
\* answer of the auth service for u: the listed permissions of a 200, the
\* empty set of a 404.
C27_LatestAnswerReturned ==
    [][\A u \in Users :
         (Gets(u) /\ ~fetch'.force /\ ~is_request_exception(fetch'.outcome)) =>
            /\ response'[u] # NoResponse
            /\ fetch'.result = response'[u].value]_vars

\* C26: no client exists with an empty service key (its construction raised
\* ConfigurationError), so no context has issued a registry call for one.
C26_EmptyKeyRejected ==
    /\ service_key # ""
    /\ service_key = "" => \A c \in Ctx : frame[c].calls = 0

\* C28: for every category c, get_permissions_by_category(c) lists exactly
\* the registered permissions whose category is c, each once, and every name
\* in a category's list is a key of the permission map.
C28_CategoryIndex ==
    \A c \in Categories :
      LET names == IF c \in DOMAIN registry.categories
                   THEN registry.categories[c] ELSE <<>>
          got == get_permissions_by_category(c)
      IN /\ \A i \in 1..Len(names) : names[i] \in DOMAIN registry.permissions
         /\ \A i, j \in 1..Len(got) : got[i] = got[j] => i = j
         /\ {got[i] : i \in 1..Len(got)} =
               {registry.permissions[n] : n \in {m \in DOMAIN registry.permissions :
                                                    registry.permissions[m].category = c}}

\* C25: the strategy used is the first that applies of: the JWT of a
\* 'Bearer ' Authorization header; the gateway headers when X-User-Id and
\* X-User-Name are both non-empty; the X-Internal-Auth token. A token of the
\* selected strategy that is no JWT, or does not decode to a JSON object,
\* makes the call raise InvalidTokenError; nothing else is raised; a request
\* to which no strategy applies gives None.
C25_StrategyPriority ==
    extraction.done =>
       LET headers == extraction.headers
           result == extraction.result
           selected ==
              IF headers.Authorization # <<>> /\ headers.Authorization[1] = "Bearer "
              THEN "jwt"
              ELSE IF headers.X_User_Id \notin {NoHeader, ""}
                      /\ headers.X_User_Name \notin {NoHeader, ""}
              THEN "gateway"
              ELSE IF headers.X_Internal_Auth \notin {NoHeader, ""}
              THEN "internal"
              ELSE "none"
           malformed ==
              \/ selected = "jwt" /\ headers.Authorization[2] = "garbage"
              \/ selected = "internal" /\ headers.X_Internal_Auth # "e30="
       IN /\ result.strategy = selected
          /\ malformed => result.raised = "InvalidTokenError"
          /\ result.raised \in {NoEntry, "InvalidTokenError"}
          /\ selected = "gateway" => result.identity
          /\ selected = "none" => ~result.identity /\ result.raised = NoEntry
====
